---- MODULE Spec2Model ----
(***************************************************************************)
(* Model of fishsticks' analog input container (src/src/analog.rs).        *)
(*                                                                         *)
(* An f32 in the analog range is modelled as an integer number of          *)
(* 1/Scale units, so that 1.0 is Scale, the analog deadzone 0.1 is          *)
(* Scale \div 10 and an i16 sample x (x / 32767) is exactly 10 * x units.   *)
(* Comparisons of f32 values become comparisons of integers.  Option<f32>  *)
(* is a sequence of length at most one: None is << >>, Some(x) is <<x>>.   *)
(* The sign of a zero (f32 has +0.0 and -0.0) is not represented: set only *)
(* compares signum of two values whose magnitudes both reach a deadzone,   *)
(* and both deadzones are positive.                                        *)
(***************************************************************************)
EXTENDS Integers, FiniteSets, Sequences, TLC

\* Number of distinct keys T the callers use.
MaxKeys == 2

Keys == 1..MaxKeys

\* Number of consecutive update calls the tick driver makes at most.
MaxUpdates == 2

\* i16::MAX, the divisor of the integer conversion.
I16_MAX == 32767

I16_MIN == -I16_MAX - 1

\* Number of model units in the f32 value 1.0.
Scale == 10 * I16_MAX

ANALOG_MIN == -Scale

ANALOG_MAX == Scale

DEFAULT_DEADZONE == Scale \div 10

DEFAULT_DEADZONE_DIGITAL == Scale \div 2

None == << >>

Some(x) == << x >>

abs(x) == IF x < 0 THEN -x ELSE x

\* f32::signum: 1.0 for a positive number (and +0.0), -1.0 for a negative one.
signum(x) == IF x < 0 THEN -1 ELSE 1

\* f32::clamp
clamp(x, lo, hi) == IF x < lo THEN lo ELSE IF x > hi THEN hi ELSE x

\* A raw f32 sample: a finite number of model units, or NaN / an infinity.
Finite(n) == [kind |-> "finite", num |-> n]

NaN == [kind |-> "nan", num |-> 0]

Infinity == [kind |-> "inf", num |-> 1]

NegInfinity == [kind |-> "inf", num |-> -1]

is_finite(x) == x.kind = "finite"

\* From<i16> without the clamp of line 18.
From_i16_unclamped(x) == 10 * x

\* impl From<i16> for AnalogInputValue
From_i16(x) == clamp(10 * x, ANALOG_MIN, ANALOG_MAX)

\* From<f32> testing !is_nan() where line 24 tests is_finite(): an infinity
\* is clamped to the end of the range.
From_f32_clamps_infinity(x) ==
    IF x.kind = "inf"
    THEN clamp(x.num * 2 * Scale, ANALOG_MIN, ANALOG_MAX)
    ELSE IF is_finite(x) THEN clamp(x.num, ANALOG_MIN, ANALOG_MAX) ELSE 0

\* impl From<f32> for AnalogInputValue
From_f32(x) == IF is_finite(x) THEN clamp(x.num, ANALOG_MIN, ANALOG_MAX) ELSE 0

\* impl From<AnalogInputValue> for Deadzone
Deadzone_from(val) == abs(val)

\* The raw samples the sampling source feeds: 0.05, 0.1, 0.4, 0.5 and an
\* out-of-range 2.0, of both signs, zero, and the non-finite values.
F32Magnitudes == { Scale \div 20, Scale \div 10, (2 * Scale) \div 5,
                   Scale \div 2, 2 * Scale }

F32Samples == { Finite(0), NaN, Infinity, NegInfinity }
                \cup { Finite(m) : m \in F32Magnitudes }
                \cup { Finite(-m) : m \in F32Magnitudes }

I16Samples == { I16_MIN, -I16_MAX, 0, I16_MAX }

\* Every AnalogInputValue a caller can pass to set.
AnalogInputValues == { From_i16(x) : x \in I16Samples }
                       \cup { From_f32(x) : x \in F32Samples }

\* The i16 samples of the single-key runs: the extremes and the neighbours of
\* both deadzones (3276.7 and 16383.5 in i16 units).
I16TraceSamples == I16Samples \cup { -16384, -16383, -3277, -3276,
                                     3276, 3277, 16383, 16384 }

\* A raw i16 sample.
I16(n) == [kind |-> "i16", num |-> n]

\* No raw sample: the caller passed a ready AnalogInputValue.
NoSample == [kind |-> "none", num |-> 0]

\* The key of the single-key runs.
TraceKey == CHOOSE k \in Keys : \A j \in Keys : k <= j

VARIABLES
    ai,         \* the AnalogInput<T> container
    call,       \* the most recent call on the container and its arguments
    updates,    \* number of update calls since the most recent set
    passed,     \* per key, the value most recently passed to set
    twin,       \* a second container, analog deadzone 0.5, given the same
                \* calls in the single-key runs
    sample,     \* the raw sample the most recent set's value was built from
    tick        \* start: per key, the stored value at the most recent update;
                \* active: the keys whose stored magnitude was at or above the
                \* analog deadzone then or after a set since

vars == << ai, call, updates, passed, twin, sample, tick >>

\* ---- HashMap / HashSet operations -------------------------------------

get(map, k) == IF k \in DOMAIN map THEN Some(map[k]) ELSE None

insert(map, k, v) == [x \in (DOMAIN map) \cup {k} |-> IF x = k THEN v ELSE map[x]]

\* ---- Queries -----------------------------------------------------------

\* value comparing with >= where line 77 has >.
value_at_threshold(self, input) ==
    LET got == get(self.inputs, input)
    IN  IF got # None /\ Deadzone_from(got[1]) >= self.deadzone
        THEN got[1]
        ELSE 0

value(self, input) ==
    LET got == get(self.inputs, input)
    IN  IF got # None /\ Deadzone_from(got[1]) > self.deadzone
        THEN got[1]
        ELSE 0

\* just_activated without the contains test of line 84.
just_activated_unchecked(self, input) == Some(value(self, input))

just_activated(self, input) ==
    IF input \in self.just_activated THEN Some(value(self, input)) ELSE None

just_deactivated(self, input) == input \in self.just_deactivated

\* value_digital comparing with >= where line 102 has >.
value_digital_at_threshold(self, input) ==
    LET got == get(self.inputs, input)
    IN  IF got # None /\ Deadzone_from(got[1]) >= self.deadzone_digital
        THEN IF got[1] < 0 THEN ANALOG_MIN ELSE ANALOG_MAX
        ELSE 0

value_digital(self, input) ==
    LET got == get(self.inputs, input)
    IN  IF got # None /\ Deadzone_from(got[1]) > self.deadzone_digital
        THEN IF got[1] < 0 THEN ANALOG_MIN ELSE ANALOG_MAX
        ELSE 0

just_activated_digital(self, input) ==
    IF input \in self.just_activated_digital
    THEN Some(value_digital(self, input))
    ELSE None

just_deactivated_digital(self, input) == input \in self.just_deactivated_digital

\* ---- Mutation ----------------------------------------------------------

\* set_analog without line 147: a key leaving the deadzone stays in
\* just_deactivated.
set_analog_keeps_deactivated(self, input, old, val) ==
    IF abs(val) < self.deadzone
    THEN [self EXCEPT
            !.just_activated = @ \ {input},
            !.just_deactivated =
                IF abs(old) >= self.deadzone THEN @ \cup {input} ELSE @]
    ELSE [self EXCEPT
            !.just_activated =
                IF abs(old) < self.deadzone \/ signum(val) # signum(old)
                THEN @ \cup {input} ELSE @]

\* set_analog without line 142: a key entering the deadzone stays in
\* just_activated.
set_analog_keeps_activated(self, input, old, val) ==
    IF abs(val) < self.deadzone
    THEN [self EXCEPT
            !.just_deactivated =
                IF abs(old) >= self.deadzone THEN @ \cup {input} ELSE @]
    ELSE [self EXCEPT
            !.just_deactivated = @ \ {input},
            !.just_activated =
                IF abs(old) < self.deadzone \/ signum(val) # signum(old)
                THEN @ \cup {input} ELSE @]

\* set_analog without the test of line 143: every sample inside the deadzone
\* deactivates.
set_analog_always_deactivates(self, input, old, val) ==
    IF abs(val) < self.deadzone
    THEN [self EXCEPT
            !.just_activated = @ \ {input},
            !.just_deactivated = @ \cup {input}]
    ELSE [self EXCEPT
            !.just_deactivated = @ \ {input},
            !.just_activated =
                IF abs(old) < self.deadzone \/ signum(val) # signum(old)
                THEN @ \cup {input} ELSE @]

\* set_analog that keeps a key in just_activated only when this very set is
\* an activation edge.
set_analog_edge_only(self, input, old, val) ==
    IF abs(val) < self.deadzone
    THEN [self EXCEPT
            !.just_activated = @ \ {input},
            !.just_deactivated =
                IF abs(old) >= self.deadzone THEN @ \cup {input} ELSE @]
    ELSE [self EXCEPT
            !.just_deactivated = @ \ {input},
            !.just_activated =
                IF abs(old) < self.deadzone \/ signum(val) # signum(old)
                THEN @ \cup {input} ELSE @ \ {input}]

\* set, a previous sample exists: the analog pair.
set_analog(self, input, old, val) ==
    IF abs(val) < self.deadzone
    THEN [self EXCEPT
            !.just_activated = @ \ {input},
            !.just_deactivated =
                IF abs(old) >= self.deadzone THEN @ \cup {input} ELSE @]
    ELSE [self EXCEPT
            !.just_deactivated = @ \ {input},
            !.just_activated =
                IF abs(old) < self.deadzone \/ signum(val) # signum(old)
                THEN @ \cup {input} ELSE @]

\* set_digital comparing the old magnitude with the analog deadzone where
\* line 158 compares it with the digital one.
set_digital_old_against_analog(self, input, old, val) ==
    IF abs(val) < self.deadzone_digital
    THEN [self EXCEPT
            !.just_activated_digital = @ \ {input},
            !.just_deactivated_digital =
                IF abs(old) >= self.deadzone THEN @ \cup {input} ELSE @]
    ELSE [self EXCEPT
            !.just_deactivated_digital = @ \ {input},
            !.just_activated_digital =
                IF abs(old) < self.deadzone_digital \/ signum(val) # signum(old)
                THEN @ \cup {input} ELSE @]

\* set_digital calling clear() where lines 157 and 162 call remove(&input).
set_digital_clears(self, input, old, val) ==
    IF abs(val) < self.deadzone_digital
    THEN [self EXCEPT
            !.just_activated_digital = {},
            !.just_deactivated_digital =
                IF abs(old) >= self.deadzone_digital THEN @ \cup {input} ELSE @]
    ELSE [self EXCEPT
            !.just_deactivated_digital = {},
            !.just_activated_digital =
                IF abs(old) < self.deadzone_digital \/ signum(val) # signum(old)
                THEN @ \cup {input} ELSE @]

\* set, a previous sample exists: the digital pair.
set_digital(self, input, old, val) ==
    IF abs(val) < self.deadzone_digital
    THEN [self EXCEPT
            !.just_activated_digital = @ \ {input},
            !.just_deactivated_digital =
                IF abs(old) >= self.deadzone_digital THEN @ \cup {input} ELSE @]
    ELSE [self EXCEPT
            !.just_deactivated_digital = @ \ {input},
            !.just_activated_digital =
                IF abs(old) < self.deadzone_digital \/ signum(val) # signum(old)
                THEN @ \cup {input} ELSE @]

\* set_first without the test of line 168: every first sample activates.
set_first_always_activates(self, input, val) ==
    LET a == [self EXCEPT !.just_activated = @ \cup {input},
                          !.just_deactivated = @ \ {input}]
    IN  IF abs(val) >= a.deadzone_digital
        THEN [a EXCEPT !.just_activated_digital = @ \cup {input},
                       !.just_deactivated_digital = @ \ {input}]
        ELSE a

\* set, first sample of the key.
set_first(self, input, val) ==
    LET a == IF abs(val) >= self.deadzone
             THEN [self EXCEPT !.just_activated = @ \cup {input},
                               !.just_deactivated = @ \ {input}]
             ELSE self
    IN  IF abs(val) >= a.deadzone_digital
        THEN [a EXCEPT !.just_activated_digital = @ \cup {input},
                       !.just_deactivated_digital = @ \ {input}]
        ELSE a

\* An insert that keeps the value of a key already present
\* (entry().or_insert()).
inputs_insert_keeps_old(self, input, val) ==
    IF input \in DOMAIN self.inputs
    THEN self
    ELSE [self EXCEPT !.inputs = insert(@, input, val)]

\* HashMap::insert as set uses it: the new map.
inputs_insert(self, input, val) == [self EXCEPT !.inputs = insert(@, input, val)]

set(self, input, val) ==
    LET old == get(self.inputs, input)
        stored == inputs_insert(self, input, val)
    IN  IF old # None
        THEN set_digital(set_analog(stored, input, old[1], val), input, old[1], val)
        ELSE set_first(stored, input, val)

\* update without line 183.
update_forgets_digital(self) ==
    [self EXCEPT !.just_activated = {},
                 !.just_deactivated = {},
                 !.just_activated_digital = {}]

\* update that also clears inputs.
update_clears_inputs(self) ==
    [self EXCEPT !.inputs = << >>,
                 !.just_activated = {},
                 !.just_deactivated = {},
                 !.just_activated_digital = {},
                 !.just_deactivated_digital = {}]

\* update that hands the activated keys over to the deactivated sets instead
\* of clearing both.
update_rotates(self) ==
    [self EXCEPT !.just_activated = {},
                 !.just_deactivated = self.just_activated,
                 !.just_activated_digital = {},
                 !.just_deactivated_digital = self.just_activated_digital]

update(self) ==
    [self EXCEPT !.just_activated = {},
                 !.just_deactivated = {},
                 !.just_activated_digital = {},
                 !.just_deactivated_digital = {}]

\* default with the two deadzone constants swapped.
default_swapped_deadzones ==
    [inputs |-> << >>,
     just_activated |-> {},
     just_deactivated |-> {},
     deadzone |-> DEFAULT_DEADZONE_DIGITAL,
     just_activated_digital |-> {},
     just_deactivated_digital |-> {},
     deadzone_digital |-> DEFAULT_DEADZONE]

\* impl Default for AnalogInput<T>
default ==
    [inputs |-> << >>,
     just_activated |-> {},
     just_deactivated |-> {},
     deadzone |-> DEFAULT_DEADZONE,
     just_activated_digital |-> {},
     just_deactivated_digital |-> {},
     deadzone_digital |-> DEFAULT_DEADZONE_DIGITAL]

\* ---- The container driven by its callers -------------------------------

\* A container like default, but with the digital deadzone as its analog one.
twin_default == [default EXCEPT !.deadzone = default.deadzone_digital]

\* The keys whose stored magnitude is at or above the analog deadzone.
active_keys(self) ==
    { k \in DOMAIN self.inputs : abs(self.inputs[k]) >= self.deadzone }

Init ==
    /\ ai = default
    /\ call = [op |-> "default", input |-> 0, val |-> 0]
    /\ updates = 0
    /\ passed = [k \in Keys |-> None]
    /\ twin = twin_default
    /\ sample = NoSample
    /\ tick = [start |-> [k \in Keys |-> None], active |-> {}]

\* The caller calls set(input, val).
CallSet(input, val) ==
    /\ ai' = set(ai, input, val)
    /\ call' = [op |-> "set", input |-> input, val |-> val]
    /\ updates' = 0
    /\ passed' = [passed EXCEPT ![input] = Some(val)]

\* The caller calls update().
CallUpdate ==
    /\ updates < MaxUpdates
    /\ ai' = update(ai)
    /\ call' = [op |-> "update", input |-> 0, val |-> 0]
    /\ updates' = updates + 1
    /\ UNCHANGED passed

Set ==
    \E input \in Keys, val \in AnalogInputValues :
        /\ CallSet(input, val)
        /\ UNCHANGED << twin, sample, tick >>

Update ==
    /\ CallUpdate
    /\ UNCHANGED << twin, sample, tick >>

Next == Set \/ Update

Spec == Init /\ [][Next]_vars

\* ---- One key, fed from raw samples, with the tick boundary recorded and
\* ---- a second container given the same calls ---------------------------

\* set(TraceKey, val) with val built from the raw sample raw.
TraceSet(raw, val) ==
    /\ CallSet(TraceKey, val)
    /\ twin' = set(twin, TraceKey, val)
    /\ sample' = raw
    /\ tick' = [tick EXCEPT !.active = active_keys(ai') \cup @]

SetFromI16 == \E x \in I16TraceSamples : TraceSet(I16(x), From_i16(x))

SetFromF32 == \E x \in F32Samples : TraceSet(x, From_f32(x))

TraceUpdate ==
    /\ CallUpdate
    /\ twin' = update(twin)
    /\ tick' = [start |-> [k \in Keys |-> get(ai.inputs, k)],
                active |-> active_keys(ai)]
    /\ UNCHANGED sample

TraceNext == SetFromI16 \/ SetFromF32 \/ TraceUpdate

SpecTrace == Init /\ [][TraceNext]_vars

TypeOK ==
    /\ DOMAIN ai.inputs \subseteq Keys
    /\ \A k \in DOMAIN ai.inputs : ai.inputs[k] \in ANALOG_MIN..ANALOG_MAX
    /\ ai.just_activated \subseteq Keys
    /\ ai.just_deactivated \subseteq Keys
    /\ ai.just_activated_digital \subseteq Keys
    /\ ai.just_deactivated_digital \subseteq Keys

\* ---- Properties --------------------------------------------------------

\* The step is a call of set.
IsSet == call'.op = "set"

\* The step is a call of update.
IsUpdate == call'.op = "update"

\* C1: in every reachable state no key is in both just_activated and
\* just_deactivated, and no key is in both just_activated_digital and
\* just_deactivated_digital.
C1_MutuallyExclusive ==
    /\ ai.just_activated \cap ai.just_deactivated = {}
    /\ ai.just_activated_digital \cap ai.just_deactivated_digital = {}

\* One key was deactivated in both pairs and then left both deadzones again
\* in the same tick, so set had to take it out of the deactivated sets.
C1_Witness ==
    /\ call.op = "set"
    /\ call.input \in ai.just_activated
    /\ call.input \in ai.just_activated_digital
    /\ \E j \in Keys : /\ j \in ai.just_deactivated
                        /\ j \in ai.just_deactivated_digital

\* C2: after update, and until the next set, the four transition queries
\* answer None / false for every key.
C2_ClearedAfterUpdate ==
    call.op = "update" =>
        \A k \in Keys :
            /\ just_activated(ai, k) = None
            /\ just_activated_digital(ai, k) = None
            /\ ~just_deactivated(ai, k)
            /\ ~just_deactivated_digital(ai, k)

\* update has run after sets that left one key outside and another inside
\* both deadzones.
C2_Witness ==
    /\ call.op = "update"
    /\ \E k \in DOMAIN ai.inputs : abs(ai.inputs[k]) >= ai.deadzone_digital
    /\ \E k \in DOMAIN ai.inputs : abs(ai.inputs[k]) < ai.deadzone

\* C3 (as claimed): a set that flips the sign of a key while old and new
\* magnitude are both at or above the analog deadzone leaves the key in
\* just_activated, with just_activated returning Some of the new value, and
\* out of just_deactivated.
C3_SignFlipReportsNewValue ==
    [][LET k == call'.input
           v == call'.val
       IN ( /\ IsSet
            /\ k \in DOMAIN ai.inputs
            /\ abs(ai.inputs[k]) >= ai.deadzone
            /\ abs(v) >= ai.deadzone
            /\ signum(v) # signum(ai.inputs[k]) )
          => /\ k \in ai'.just_activated
             /\ just_activated(ai', k) = Some(v)
             /\ ~just_deactivated(ai', k)]_vars

\* C4: a set that takes a key from a magnitude at or above the analog
\* deadzone to a magnitude below it makes just_deactivated true,
\* just_activated None and value 0.0 for that key.
C4_Deactivation ==
    [][LET k == call'.input
           v == call'.val
       IN ( /\ IsSet
            /\ k \in DOMAIN ai.inputs
            /\ abs(ai.inputs[k]) >= ai.deadzone
            /\ abs(v) < ai.deadzone )
          => /\ just_deactivated(ai', k)
             /\ just_activated(ai', k) = None
             /\ value(ai', k) = 0]_vars

\* The last call was a set of a non-zero value inside the analog deadzone and
\* the key is reported deactivated.
C4_Witness ==
    /\ call.op = "set"
    /\ call.val # 0
    /\ abs(call.val) < ai.deadzone
    /\ just_deactivated(ai, call.input)
    /\ just_activated(ai, call.input) = None
    /\ value(ai, call.input) = 0

\* C5 (as claimed): a set of a value at or above the analog deadzone for a
\* key that is new, or whose stored magnitude was below the deadzone, makes
\* just_activated Some of that value and value that value.
C5_ActivationReportsValue ==
    [][LET k == call'.input
           v == call'.val
       IN ( /\ IsSet
            /\ \/ k \notin DOMAIN ai.inputs
               \/ abs(ai.inputs[k]) < ai.deadzone
            /\ abs(v) >= ai.deadzone )
          => /\ just_activated(ai', k) = Some(v)
             /\ value(ai', k) = v]_vars

\* The answers of the six queries for one key.
Queries(self, k) ==
    << value(self, k), value_digital(self, k),
       just_activated(self, k), just_activated_digital(self, k),
       just_deactivated(self, k), just_deactivated_digital(self, k) >>

\* C6: value(k) is the value most recently passed to set for k when its
\* magnitude is strictly greater than the analog deadzone 0.1, and 0.0
\* otherwise: at the deadzone exactly, inside it, and for a key never set.
C6_Value ==
    \A k \in Keys :
        value(ai, k) =
            IF passed[k] # None /\ abs(passed[k][1]) > DEFAULT_DEADZONE
            THEN passed[k][1]
            ELSE 0

\* One key was last set to exactly the deadzone magnitude and reads 0.0, the
\* other was set more than once and reads its last value.
C6_Witness ==
    /\ \E k \in Keys : /\ passed[k] # None
                        /\ abs(passed[k][1]) = DEFAULT_DEADZONE
                        /\ value(ai, k) = 0
    /\ \E k \in Keys : /\ passed[k] # None
                        /\ value(ai, k) = passed[k][1]
                        /\ value(ai, k) # 0
                        /\ k \notin ai.just_activated

\* C7: value_digital(k) is ANALOG_MAX when the value last set for k is
\* positive with magnitude strictly greater than the digital deadzone 0.5,
\* ANALOG_MIN when it is negative with such a magnitude, and 0.0 otherwise.
C7_ValueDigital ==
    \A k \in Keys :
        value_digital(ai, k) =
            IF passed[k] # None /\ abs(passed[k][1]) > DEFAULT_DEADZONE_DIGITAL
            THEN IF passed[k][1] > 0 THEN ANALOG_MAX ELSE ANALOG_MIN
            ELSE 0

\* One key reads ANALOG_MIN while another, last set to exactly the digital
\* deadzone magnitude, reads 0.0.
C7_Witness ==
    /\ \E k \in Keys : value_digital(ai, k) = ANALOG_MIN
    /\ \E k \in Keys : /\ passed[k] # None
                        /\ abs(passed[k][1]) = DEFAULT_DEADZONE_DIGITAL
                        /\ value_digital(ai, k) = 0

\* C8: a key never passed to set reads 0.0 / 0.0 / None / None / false /
\* false, whatever was done with the other keys.
C8_UnreadKey ==
    \A k \in Keys :
        passed[k] = None => Queries(ai, k) = << 0, 0, None, None, FALSE, FALSE >>

\* One key is still unread while another one has been set, is active and is
\* in both activated sets.
C8_Witness ==
    \E k, j \in Keys :
        /\ passed[k] = None
        /\ passed[j] # None
        /\ j \in ai.just_activated
        /\ j \in ai.just_activated_digital
        /\ value(ai, j) # 0

\* C9: update leaves inputs unchanged, and with it value and value_digital
\* of every key.
C9_UpdateKeepsInputs ==
    [][IsUpdate =>
          /\ ai'.inputs = ai.inputs
          /\ \A k \in Keys : /\ value(ai', k) = value(ai, k)
                              /\ value_digital(ai', k) = value_digital(ai, k)]_vars

\* update has run on a container that holds a value outside both deadzones.
C9_Witness ==
    /\ call.op = "update"
    /\ \E k \in Keys : value(ai, k) # 0 /\ value_digital(ai, k) # 0

\* C10: update is idempotent: from every reachable state, a second update in
\* a row leaves the container, and every query on every key, as the first
\* one left them.
C10_UpdateIdempotent ==
    LET once == update(ai)
        twice == update(update(ai))
    IN  /\ twice = once
        /\ \A k \in Keys : Queries(twice, k) = Queries(once, k)
        /\ call.op = "update" => once = ai

\* update has been called twice in a row on a container that holds values.
C10_Witness ==
    /\ updates = MaxUpdates
    /\ call.op = "update"
    /\ \E k \in Keys : value(ai, k) # 0

\* C11: keys are never removed from inputs: a key that was passed to set is
\* present in inputs ever after, and its stored value is the value of the
\* most recent set for it.
C11_InputsKeepLastSet ==
    \A k \in Keys :
        passed[k] # None => get(ai.inputs, k) = passed[k]

\* Both keys were set, the one set last was set before with another value or
\* an update has run since, and an update was the last call.
C11_Witness ==
    /\ call.op = "update"
    /\ \A k \in Keys : passed[k] # None /\ get(ai.inputs, k) = passed[k]
    /\ \E k \in Keys : abs(passed[k][1]) < ai.deadzone
    /\ \E k \in Keys : abs(passed[k][1]) > ai.deadzone_digital

\* C15: until update, a key in just_activated stays there through every set
\* for it whose magnitude is at or above the analog deadzone, and a key in
\* just_deactivated stays there through every set for it whose magnitude is
\* below the deadzone.
C15_TransitionStaysReported ==
    [][IsSet =>
          LET k == call'.input
              v == call'.val
          IN  /\ (k \in ai.just_activated /\ abs(v) >= ai.deadzone)
                    => k \in ai'.just_activated
              /\ (k \in ai.just_deactivated /\ abs(v) < ai.deadzone)
                    => k \in ai'.just_deactivated]_vars

\* The last set stored a value outside the analog deadzone for a key that is
\* in just_activated and that has also entered the digital deadzone in this
\* tick.
C15_Witness ==
    /\ call.op = "set"
    /\ abs(call.val) >= ai.deadzone
    /\ call.input \in ai.just_activated
    /\ call.input \in ai.just_deactivated_digital

\* C16 (as claimed): whenever just_activated(k) is Some(x), x is non-zero and
\* is the value last set for k, and whenever just_activated_digital(k) is
\* Some(x), x is ANALOG_MIN or ANALOG_MAX.
C16_ActivatedValueNonZero ==
    \A k \in Keys :
        /\ just_activated(ai, k) # None =>
              /\ just_activated(ai, k)[1] # 0
              /\ just_activated(ai, k) = passed[k]
        /\ just_activated_digital(ai, k) # None =>
              just_activated_digital(ai, k)[1] \in {ANALOG_MIN, ANALOG_MAX}

\* C17: every key of just_activated has a stored magnitude at or above the
\* analog deadzone, every key of just_deactivated one below it (value is
\* 0.0), likewise for the digital sets and the digital deadzone, and every
\* key of the four sets is a key of inputs.
C17_SetsMatchStoredValue ==
    /\ (ai.just_activated \cup ai.just_deactivated
          \cup ai.just_activated_digital \cup ai.just_deactivated_digital)
            \subseteq DOMAIN ai.inputs
    /\ \A k \in ai.just_activated : abs(ai.inputs[k]) >= ai.deadzone
    /\ \A k \in ai.just_deactivated :
          abs(ai.inputs[k]) < ai.deadzone /\ value(ai, k) = 0
    /\ \A k \in ai.just_activated_digital :
          abs(ai.inputs[k]) >= ai.deadzone_digital
    /\ \A k \in ai.just_deactivated_digital :
          abs(ai.inputs[k]) < ai.deadzone_digital /\ value_digital(ai, k) = 0

\* One key is in just_activated and in just_deactivated_digital at once
\* while another is in just_deactivated.
C17_Witness ==
    /\ ai.just_activated \cap ai.just_deactivated_digital # {}
    /\ ai.just_deactivated # {}

\* C18: set(k, v) leaves the stored value of every other key, and its
\* membership in each of the four sets, as they were; no call changes the
\* two deadzones.
C18_SetFrame ==
    [][/\ ai'.deadzone = ai.deadzone
       /\ ai'.deadzone_digital = ai.deadzone_digital
       /\ IsSet =>
            \A j \in Keys \ {call'.input} :
                /\ get(ai'.inputs, j) = get(ai.inputs, j)
                /\ (j \in ai'.just_activated) = (j \in ai.just_activated)
                /\ (j \in ai'.just_deactivated) = (j \in ai.just_deactivated)
                /\ (j \in ai'.just_activated_digital)
                      = (j \in ai.just_activated_digital)
                /\ (j \in ai'.just_deactivated_digital)
                      = (j \in ai.just_deactivated_digital)]_vars

\* The last call set one key inside both deadzones while another key holds a
\* value and is in an analog and in a digital transition set.
C18_Witness ==
    /\ call.op = "set"
    /\ abs(call.val) < ai.deadzone
    /\ \E j \in Keys \ {call.input} :
          /\ j \in DOMAIN ai.inputs
          /\ j \in ai.just_activated
          /\ j \in ai.just_activated_digital

\* C20: with the default deadzones, value_digital(k) # 0.0 implies that
\* value(k) is non-zero with the same sign, and a key of
\* just_activated_digital has a stored magnitude at or above the analog
\* deadzone.
C20_DigitalImpliesAnalog ==
    \A k \in Keys :
        /\ value_digital(ai, k) # 0 =>
              /\ value(ai, k) # 0
              /\ signum(value(ai, k)) = signum(value_digital(ai, k))
        /\ k \in ai.just_activated_digital =>
              /\ k \in DOMAIN ai.inputs
              /\ abs(ai.inputs[k]) >= DEFAULT_DEADZONE

\* One key reads ANALOG_MIN and is in just_activated_digital while another
\* is active for the analog reading only.
C20_Witness ==
    /\ \E k \in Keys : /\ value_digital(ai, k) = ANALOG_MIN
                        /\ k \in ai.just_activated_digital
    /\ \E k \in Keys : value(ai, k) # 0 /\ value_digital(ai, k) = 0

\* C12: every AnalogInputValue built from a raw sample lies in [-1.0, 1.0]:
\* an i16 sample x gives x / 32767 clamped (-32768 and -32767 both give
\* -1.0), a finite f32 sample gives the sample clamped; so every stored value
\* and every value() is within [-1.0, 1.0].
C12_ValuesInRange ==
    /\ \A k \in DOMAIN ai.inputs :
          /\ ai.inputs[k] \in ANALOG_MIN..ANALOG_MAX
          /\ value(ai, k) \in ANALOG_MIN..ANALOG_MAX
    /\ (call.op = "set" /\ sample.kind = "i16") =>
          /\ ai.inputs[call.input] =
                IF sample.num <= -I16_MAX
                THEN ANALOG_MIN
                ELSE sample.num * (Scale \div I16_MAX)
    /\ (call.op = "set" /\ sample.kind = "finite") =>
          /\ ai.inputs[call.input] =
                IF sample.num < ANALOG_MIN THEN ANALOG_MIN
                ELSE IF sample.num > ANALOG_MAX THEN ANALOG_MAX
                ELSE sample.num

\* The last set was fed the i16 sample -32768 and stored -1.0.
C12_Witness ==
    /\ call.op = "set"
    /\ sample = I16(I16_MIN)
    /\ ai.inputs[call.input] = ANALOG_MIN
    /\ value(ai, call.input) = ANALOG_MIN

\* C13: a set fed a NaN or infinite f32 sample passes exactly 0.0 and acts
\* exactly as a set with 0.0: afterwards the key reads as inside both
\* deadzones.
C13_NonFiniteIsZero ==
    [][(IsSet /\ sample'.kind \in {"nan", "inf"}) =>
          LET k == call'.input
          IN  /\ call'.val = 0
              /\ ai' = set(ai, k, 0)
              /\ get(ai'.inputs, k) = Some(0)
              /\ value(ai', k) = 0
              /\ value_digital(ai', k) = 0
              /\ just_activated(ai', k) = None
              /\ just_activated_digital(ai', k) = None]_vars

\* The last set was fed an infinity while the key was outside both deadzones
\* in this tick: it stored 0.0 and the key is reported deactivated in both
\* pairs.
C13_Witness ==
    /\ call.op = "set"
    /\ sample.kind = "inf"
    /\ get(ai.inputs, call.input) = Some(0)
    /\ just_deactivated(ai, call.input)
    /\ just_deactivated_digital(ai, call.input)

\* C14: the digital pair holds what the analog pair of a second container
\* holds that got the same calls and has 0.5 as its analog deadzone.
C14_DigitalIsAnalogRuleAtDigitalDeadzone ==
    /\ ai.just_activated_digital = twin.just_activated
    /\ ai.just_deactivated_digital = twin.just_deactivated

\* A key is reported activated by the analog pair and deactivated by the
\* digital pair at once, and the second container, which got the same calls,
\* reports it deactivated.
C14_Witness ==
    \E k \in Keys :
        /\ k \in ai.just_activated
        /\ k \in ai.just_deactivated_digital
        /\ k \in twin.just_deactivated
        /\ twin.inputs = ai.inputs
        /\ twin.deadzone = ai.deadzone_digital

\* C19 (as claimed): whenever just_deactivated(k) is true, the value stored
\* for k at the most recent update (or at creation) had magnitude at or above
\* the analog deadzone.
C19_DeactivatedWasActiveAtTickStart ==
    \A k \in Keys :
        just_deactivated(ai, k) =>
            /\ tick.start[k] # None
            /\ abs(tick.start[k][1]) >= ai.deadzone

\* C19 (amended): whenever just_deactivated(k) is true, the value stored for
\* k at the most recent update, or a value stored for k by a set since then,
\* had magnitude at or above the analog deadzone.
C19_DeactivatedWasActiveInTick ==
    \A k \in Keys :
        just_deactivated(ai, k) => k \in tick.active

\* An update has run, the key was inside the deadzone at it, and the key is
\* now reported deactivated.
C19_Witness ==
    \E k \in Keys :
        /\ just_deactivated(ai, k)
        /\ tick.start[k] # None
        /\ abs(tick.start[k][1]) < ai.deadzone
        /\ k \in tick.active

====
